---------------------------- MODULE Spec2Model ----------------------------
(***************************************************************************)
(* term-heval: the command-line driver of a hold'em equity calculator      *)
(* (src/term-heval.cpp) and the equity engine it drives.                   *)
(*                                                                         *)
(* Card masks (uint64_t bit masks in the source) are modelled as sets of   *)
(* cards: bit c set <=> c in the set, mask == 0 <=> the empty set.         *)
(* Real numbers (margin, time, progress) are fixed-point, in thousandths.  *)
(***************************************************************************)
EXTENDS Integers, Sequences, FiniteSets, TLC

\* ------------------------------------------------------------ bounds
NumCards == 6        \* cards of the model's deck (the real deck has 52)
MaxOpts == 3         \* options one command line carries
MaxDeadCards == 2    \* cards of a dead-card argument
NumWorkers == 2      \* workers of the engine
MaxDeals == 2        \* deals of the largest enumeration space
MaxSamples == 2      \* Monte Carlo samples tallied before the counters saturate
MaxStrength == 1     \* the hand strengths are 0 .. MaxStrength

\* ------------------------------------------------- program constants
MIN_PLAYERS == 2
MAX_PLAYERS == 10
BOARD_MAX_CHARS == 10
DEFAULT_ERR_MARGIN == 1      \* 1e-3, in thousandths
DEFAULT_TIME_MAX == 30000    \* 30 s, in thousandths
ONE == 1000                  \* 1.0 in thousandths

\* -------------------------------------------------------- the inputs
\* The engine is followed through runs of two and of three players.
MaxEnginePlayers == MIN_PLAYERS + 1

Deck == 0 .. (NumCards - 1)
BadCard == NumCards   \* a two-character token that names no card

Run(i, j) == [k \in 1 .. (j - i + 1) |-> i + k - 1]

\* Card strings, as sequences of two-character tokens: the runs of the
\* deck of at most maxc cards, the empty string, a string with a token
\* that is no card, and a string naming a card twice.
CardStrs(maxc) ==
  {Run(p[1], p[2]) : p \in {q \in Deck \X Deck :
                                 q[1] =< q[2] /\ q[2] - q[1] + 1 =< maxc}}
    \cup {<< >>, <<BadCard>>, <<0, 0>>}

\* cards.length(): two characters a token.
length(cards) == 2 * Len(cards)

\* The numeric strings handed to -e and -t.
NumStrs == {"0", "-1", "0.005", "abc", "1e999"}

\* The range strings of the command line.
RangeWords == {"xx", "AhAd", "AhAd,KhKd"}

RangeArgvs ==
  UNION {[1 .. n -> RangeWords] : n \in 0 .. MIN_PLAYERS}
    \cup {[i \in 1 .. n |-> w] : n \in {MAX_PLAYERS, MAX_PLAYERS + 1},
                                 w \in RangeWords}

ProgressVals == {0, 500, ONE - 1, ONE}

\* ------------------------------------------------ library functions
\* CardRange::getCardMask: the mask of the cards a string names, 0 for a
\* string that is empty, names no card somewhere, or names a card twice.
getCardMask(cards) ==
  IF \/ \E k \in DOMAIN cards : cards[k] \notin Deck
     \/ \E k, l \in DOMAIN cards : k # l /\ cards[k] = cards[l]
  THEN {}
  ELSE {cards[k] : k \in DOMAIN cards}

\* CardRange(text).combinations(): the two-card combinations of a range,
\* none for a string that is no range.  AhAd = {0,1}, KhKd = {2,3}.
combinations(text) ==
  CASE text = "AhAd" -> {{0, 1}}
    [] text = "AhAd,KhKd" -> {{0, 1}, {2, 3}}
    [] OTHER -> {}

\* std::stod: the value (in thousandths) or the exception thrown.
stod(s) ==
  CASE s = "0" -> [exc |-> "none", val |-> 0]
    [] s = "-1" -> [exc |-> "none", val |-> 0 - ONE]
    [] s = "0.005" -> [exc |-> "none", val |-> 5]
    [] s = "1e999" -> [exc |-> "out_of_range", val |-> 0]
    [] OTHER -> [exc |-> "invalid_argument", val |-> 0]

\* ---------------------------------------------------------- the state
VARIABLES
  pc,           \* where main is: opts, check, ranges, start, wait, results, done, failed
  nopts,        \* options getopt_long has returned so far
  debug,        \* the global debug flag
  board, dead,  \* the card masks
  monte_carlo, err_margin, time_max,
  err,          \* fail_prog's message ("" while none)
  range_strs,   \* the non-option arguments
  ranges,       \* the combinations of each CardRange built
  eq,           \* the calculator: the time limit set and the arguments of start
  r,            \* eq.getResults()
  out,          \* what is printed on cout, and the exit status
  \* the equity engine behind eq
  strategy,     \* "idle", then "enum" or "mc"
  total,        \* deals of the enumeration space
  left,         \* deals not yet handed to a worker
  wpc,          \* each worker: batch, check, done
  local,        \* each worker's own tally
  agg,          \* the aggregate tally
  ref,          \* the tally of one worker scoring the same deals (history)
  contrib,      \* the workers that merged a deal into the aggregate (history)
  elapsed,      \* wall-clock time since start
  stop          \* the stop flag: the stopping conditions that fired

drvVars == <<pc, nopts, debug, board, dead, monte_carlo, err_margin, time_max,
             err, range_strs, ranges, eq, r, out>>
engVars == <<strategy, total, left, wpc, local, agg, ref, contrib, elapsed, stop>>
vars == <<drvVars, engVars>>

Workers == 1 .. NumWorkers

\* A tally: each player's wins, ties and losses, each player's equity
\* share (in units of 1/ShareUnit of a deal) and the deals considered.
ZeroTally(n) ==
  [wins |-> [i \in 1 .. n |-> 0], ties |-> [i \in 1 .. n |-> 0],
   losses |-> [i \in 1 .. n |-> 0], share |-> [i \in 1 .. n |-> 0],
   total |-> 0]

EngineIdle ==
  /\ strategy = "idle"
  /\ total = 0
  /\ left = 0
  /\ wpc = [w \in Workers |-> "idle"]
  /\ local = [w \in Workers |-> ZeroTally(0)]
  /\ agg = ZeroTally(0)
  /\ ref = ZeroTally(0)
  /\ contrib = {}
  /\ elapsed = 0
  /\ stop = {}

NoCall == [called |-> FALSE]
NoResults == [players |-> 0, progress |-> 0, enumerateAll |-> FALSE, equity |-> << >>]
NoOutput == [lines |-> << >>, status |-> "none", hint |-> FALSE, exit |-> "none"]

Init ==
  /\ pc = "opts"
  /\ nopts = 0
  /\ debug = FALSE
  /\ board = {}
  /\ dead = {}
  /\ monte_carlo = FALSE
  /\ err_margin = DEFAULT_ERR_MARGIN
  /\ time_max = DEFAULT_TIME_MAX
  /\ err = ""
  /\ range_strs = << >>
  /\ ranges = << >>
  /\ eq = [timeLimit |-> 0, start |-> NoCall]
  /\ r = NoResults
  /\ out = NoOutput
  /\ EngineIdle

\* fail_prog: print the message and exit(EXIT_FAILURE).
fail_prog(err_report) ==
  /\ pc' = "failed"
  /\ err' = err_report
  /\ out' = [out EXCEPT !.exit = "EXIT_FAILURE"]

\* get_cardmask without the test of line 79.
get_cardmask_unbounded(cards, isBoard) ==
  LET bitmask == getCardMask(cards)
  IN  IF bitmask = {}
      THEN [fail |-> IF isBoard THEN "invalid board argument"
                                ELSE "invalid dead argument", mask |-> {}]
      ELSE [fail |-> "", mask |-> bitmask]

\* get_cardmask: the mask, or the message it fails with.
get_cardmask(cards, isBoard) ==
  LET bitmask == getCardMask(cards)
  IN  IF bitmask = {}
      THEN [fail |-> IF isBoard THEN "invalid board argument"
                                ELSE "invalid dead argument", mask |-> {}]
      ELSE IF isBoard /\ length(cards) > BOARD_MAX_CHARS
      THEN [fail |-> "board has too many cards", mask |-> {}]
      ELSE [fail |-> "", mask |-> bitmask]

\* get_ranges_from_argv with the test of line 49 off by one.
get_ranges_off_by_one(strs) ==
  IF Len(strs) < MIN_PLAYERS
  THEN [fail |-> "less than 2 hand ranges", ranges |-> << >>]
  ELSE IF Len(strs) > MAX_PLAYERS + 1
  THEN [fail |-> "more than 10 hand ranges", ranges |-> << >>]
  ELSE IF \E i \in DOMAIN strs : combinations(strs[i]) = {}
  THEN [fail |-> "range invalid", ranges |-> << >>]
  ELSE [fail |-> "", ranges |-> [i \in DOMAIN strs |-> combinations(strs[i])]]

\* get_ranges_from_argv: the ranges, or the message it fails with.
get_ranges_from_argv(strs) ==
  IF Len(strs) < MIN_PLAYERS
  THEN [fail |-> "less than 2 hand ranges", ranges |-> << >>]
  ELSE IF Len(strs) > MAX_PLAYERS
  THEN [fail |-> "more than 10 hand ranges", ranges |-> << >>]
  ELSE IF \E i \in DOMAIN strs : combinations(strs[i]) = {}
  THEN LET i == CHOOSE k \in DOMAIN strs :
                  /\ combinations(strs[k]) = {}
                  /\ \A l \in 1 .. (k - 1) : combinations(strs[l]) # {}
       IN  [fail |-> "range " \o strs[i] \o " invalid", ranges |-> << >>]
  ELSE [fail |-> "", ranges |-> [i \in DOMAIN strs |-> combinations(strs[i])]]

\* The test of line 145 with the mode flag inverted.
infinite_simulation_inverted(mc, margin, time) ==
  ~mc /\ margin = 0 /\ time = 0

\* The test of line 145: the simulation would never end.
infinite_simulation(mc, margin, time) ==
  mc /\ margin = 0 /\ time = 0

InOpts == pc = "opts" /\ nopts < MaxOpts

\* case '0'
OptDebug ==
  /\ InOpts
  /\ debug' = TRUE
  /\ nopts' = nopts + 1
  /\ UNCHANGED <<pc, board, dead, monte_carlo, err_margin, time_max, err,
                 range_strs, ranges, eq, r, out>>
  /\ UNCHANGED engVars

\* case 'b'
OptBoard ==
  /\ InOpts
  /\ \E cards \in CardStrs(NumCards) :
       LET m == get_cardmask(cards, TRUE)
       IN  IF m.fail # ""
           THEN fail_prog(m.fail) /\ UNCHANGED board
           ELSE board' = m.mask /\ UNCHANGED <<pc, err, out>>
  /\ nopts' = nopts + 1
  /\ UNCHANGED <<debug, dead, monte_carlo, err_margin, time_max,
                 range_strs, ranges, eq, r>>
  /\ UNCHANGED engVars

\* case 'd'
OptDead ==
  /\ InOpts
  /\ \E cards \in CardStrs(MaxDeadCards) :
       LET m == get_cardmask(cards, FALSE)
       IN  IF m.fail # ""
           THEN fail_prog(m.fail) /\ UNCHANGED dead
           ELSE dead' = m.mask /\ UNCHANGED <<pc, err, out>>
  /\ nopts' = nopts + 1
  /\ UNCHANGED <<debug, board, monte_carlo, err_margin, time_max,
                 range_strs, ranges, eq, r>>
  /\ UNCHANGED engVars

\* case 'm'
OptMonteCarlo ==
  /\ InOpts
  /\ monte_carlo' = TRUE
  /\ nopts' = nopts + 1
  /\ UNCHANGED <<pc, debug, board, dead, err_margin, time_max, err,
                 range_strs, ranges, eq, r, out>>
  /\ UNCHANGED engVars

\* case 'e'
OptMargin ==
  /\ InOpts
  /\ \E cpp_err \in NumStrs :
       LET d == stod(cpp_err)
       IN  CASE d.exc = "out_of_range" ->
                  fail_prog("Error margin out of range") /\ UNCHANGED err_margin
             [] d.exc = "invalid_argument" ->
                  fail_prog("Invalid error margin argument") /\ UNCHANGED err_margin
             [] OTHER -> err_margin' = d.val /\ UNCHANGED <<pc, err, out>>
  /\ nopts' = nopts + 1
  /\ UNCHANGED <<debug, board, dead, monte_carlo, time_max,
                 range_strs, ranges, eq, r>>
  /\ UNCHANGED engVars

\* case 't'
OptTime ==
  /\ InOpts
  /\ \E cpp_time \in NumStrs :
       LET d == stod(cpp_time)
       IN  CASE d.exc = "out_of_range" ->
                  fail_prog("Maximum time out of range (use -t 0 for no time limit)")
                    /\ UNCHANGED time_max
             [] d.exc = "invalid_argument" ->
                  fail_prog("Invalid maximum time argument") /\ UNCHANGED time_max
             [] OTHER -> time_max' = d.val /\ UNCHANGED <<pc, err, out>>
  /\ nopts' = nopts + 1
  /\ UNCHANGED <<debug, board, dead, monte_carlo, err_margin,
                 range_strs, ranges, eq, r>>
  /\ UNCHANGED engVars

\* case 'h', and an option getopt_long does not know: nothing is set.
OptHelp ==
  /\ InOpts
  /\ nopts' = nopts + 1
  /\ UNCHANGED <<pc, debug, board, dead, monte_carlo, err_margin, time_max,
                 err, range_strs, ranges, eq, r, out>>
  /\ UNCHANGED engVars

\* getopt_long returns -1: the loop ends.
OptEnd ==
  /\ pc = "opts"
  /\ pc' = "check"
  /\ UNCHANGED <<nopts, debug, board, dead, monte_carlo, err_margin,
                 time_max, err, range_strs, ranges, eq, r, out>>
  /\ UNCHANGED engVars

\* Lines 144-154: the non-termination test, then the remaining arguments
\* are gathered.
CheckInfinite ==
  /\ pc = "check"
  /\ IF infinite_simulation(monte_carlo, err_margin, time_max)
     THEN /\ fail_prog("infinite simulation queried (set time limit, error margin or disable monte-carlo)")
          /\ UNCHANGED range_strs
     ELSE /\ pc' = "ranges"
          /\ \E argv \in RangeArgvs : range_strs' = argv
          /\ UNCHANGED <<err, out>>
  /\ UNCHANGED <<nopts, debug, board, dead, monte_carlo, err_margin,
                 time_max, ranges, eq, r>>
  /\ UNCHANGED engVars

\* Line 157.
GetRanges ==
  /\ pc = "ranges"
  /\ LET g == get_ranges_from_argv(range_strs)
     IN  IF g.fail # ""
         THEN fail_prog(g.fail) /\ UNCHANGED ranges
         ELSE /\ ranges' = g.ranges
              /\ pc' = "start"
              /\ UNCHANGED <<err, out>>
  /\ UNCHANGED <<nopts, debug, board, dead, monte_carlo, err_margin,
                 time_max, range_strs, eq, r>>
  /\ UNCHANGED engVars

\* The arguments of eq.start, line 166.
start_args ==
  [called |-> TRUE, handRanges |-> ranges, boardCards |-> board,
   deadCards |-> dead, mode |-> monte_carlo, stdevTarget |-> err_margin]

\* Lines 158-166: eq.setTimeLimit(time_max); eq.start(...).
StartCalculator ==
  /\ pc = "start"
  /\ eq' = [timeLimit |-> time_max, start |-> start_args]
  /\ pc' = "wait"
  /\ UNCHANGED <<nopts, debug, board, dead, monte_carlo, err_margin,
                 time_max, err, range_strs, ranges, r, out>>
  /\ UNCHANGED engVars

\* eq.getResults(): the players, one equity a player (here none has any,
\* or all have the same), the progress made, and whether the calculator
\* enumerated.
getResults(res) ==
  /\ res.players = Len(eq.start.handRanges)
  /\ res.progress \in ProgressVals
  /\ res.enumerateAll \in BOOLEAN
  /\ res.equity \in {[i \in 1 .. res.players |-> 0],
                      [i \in 1 .. res.players |-> ONE \div res.players]}

\* Lines 167-170: eq.wait() returns and the results are read.
Wait ==
  /\ pc = "wait"
  /\ \E n \in 0 .. (MAX_PLAYERS + 1), p \in ProgressVals, e \in BOOLEAN, q \in {0, 1} :
       LET res == [players |-> n, progress |-> p, enumerateAll |-> e,
                   equity |-> [i \in 1 .. n |-> q * (ONE \div n)]]
       IN  getResults(res) /\ r' = res
  /\ pc' = "results"
  /\ UNCHANGED <<nopts, debug, board, dead, monte_carlo, err_margin,
                 time_max, err, range_strs, ranges, eq, out>>
  /\ UNCHANGED engVars

\* Line 182 with a strict comparison.
completed_strict(res) == res.progress > ONE

\* Line 182.
completed(res) == res.progress >= ONE

\* Lines 175-205: the equities, then how the calculation ended.
PrintResults ==
  /\ pc = "results"
  /\ IF Len(range_strs) # r.players
     THEN /\ pc' = "aborted"
          /\ out' = [out EXCEPT !.exit = "SIGABRT"]
     ELSE /\ pc' = "done"
          /\ out' = [lines |-> [i \in 1 .. r.players |->
                                  <<range_strs[i], r.equity[i]>>],
                     status |-> IF completed(r) THEN "completed" ELSE "timed out",
                     hint |-> ~completed(r) /\ r.enumerateAll,
                     exit |-> "EXIT_SUCCESS"]
  /\ UNCHANGED <<nopts, debug, board, dead, monte_carlo, err_margin,
                 time_max, err, range_strs, ranges, eq, r>>
  /\ UNCHANGED engVars

\* ------------------------------------------------------- the engine
\* The equity engine behind EquityCalculator (OMPEval) is not among the
\* source files; what follows is its design as the specification gives it.
Strengths == 0 .. MaxStrength
EnumThreshold == MaxDeals   \* spaces below it are always enumerated

RECURSIVE ShareUnit(_)
ShareUnit(n) == IF n = 0 THEN 1 ELSE n * ShareUnit(n - 1)

\* A scoring that gives no loss when the maximum is shared.
ScoreDeal_no_loss_on_tie(sv) ==
  LET n == Len(sv)
      best == CHOOSE m \in Strengths :
                (\E i \in 1 .. n : sv[i] = m) /\ (\A i \in 1 .. n : sv[i] =< m)
      holders == {i \in 1 .. n : sv[i] = best}
      k == Cardinality(holders)
  IN  [wins |-> [i \in 1 .. n |-> IF k = 1 /\ i \in holders THEN 1 ELSE 0],
       ties |-> [i \in 1 .. n |-> IF k > 1 /\ i \in holders THEN 1 ELSE 0],
       losses |-> [i \in 1 .. n |-> IF k = 1 /\ i \notin holders THEN 1 ELSE 0],
       share |-> [i \in 1 .. n |-> IF i \in holders THEN ShareUnit(n) \div k ELSE 0],
       total |-> 1]

\* One scored deal: sv[i] is the evaluator's value of player i's hand.  A
\* win to the only holder of the maximum, a tie to every holder of a shared
\* maximum, a loss to the rest; the deal's equity is split among the holders.
ScoreDeal(sv) ==
  LET n == Len(sv)
      best == CHOOSE m \in Strengths :
                (\E i \in 1 .. n : sv[i] = m) /\ (\A i \in 1 .. n : sv[i] =< m)
      holders == {i \in 1 .. n : sv[i] = best}
      k == Cardinality(holders)
  IN  [wins |-> [i \in 1 .. n |-> IF k = 1 /\ i \in holders THEN 1 ELSE 0],
       ties |-> [i \in 1 .. n |-> IF k > 1 /\ i \in holders THEN 1 ELSE 0],
       losses |-> [i \in 1 .. n |-> IF i \in holders THEN 0 ELSE 1],
       share |-> [i \in 1 .. n |-> IF i \in holders THEN ShareUnit(n) \div k ELSE 0],
       total |-> 1]

AddTally(a, b) ==
  [wins |-> [i \in DOMAIN a.wins |-> a.wins[i] + b.wins[i]],
   ties |-> [i \in DOMAIN a.ties |-> a.ties[i] + b.ties[i]],
   losses |-> [i \in DOMAIN a.losses |-> a.losses[i] + b.losses[i]],
   share |-> [i \in DOMAIN a.share |-> a.share[i] + b.share[i]],
   total |-> a.total + b.total]

\* A worker adds a scored deal to a tally.
Accumulate(t, sv) == AddTally(t, ScoreDeal(sv))

\* A merge that overwrites the aggregate (a lost update).
MergeTally_overwrite(a, l) == l

\* The synchronized merge of a worker's tally into the aggregate.
MergeTally(a, l) == AddTally(a, l)

\* The standard-error estimate after n samples, in thousandths: it falls
\* as samples accumulate, below any positive margin within MaxSamples.
StdErr(n) == IF n >= MaxSamples THEN 0 ELSE MaxSamples - n

\* The stopping conditions that hold: (a) the enumeration has visited its
\* whole space, (b) the standard error is within the margin, (c) the time
\* limit is reached.  A margin or a time limit of 0 is no bound.  (d), an
\* external cancellation, is never issued by this caller.
StopRule(a, lft, loc, t) ==
  {c \in {"a"} : strategy = "enum" /\ lft = 0 /\ \A w \in Workers : loc[w].total = 0}
    \cup {c \in {"b"} : /\ strategy = "mc"
                        /\ eq.start.stdevTarget # 0
                        /\ a.total > 0
                        /\ StdErr(a.total) =< eq.start.stdevTarget}
    \cup {c \in {"c"} : eq.timeLimit # 0 /\ t >= eq.timeLimit}

\* eq.start: the strategy is chosen and the workers begin.
EngineStart ==
  /\ pc = "start"
  /\ eq' = [timeLimit |-> time_max, start |-> start_args]
  /\ pc' = "wait"
  /\ \E sz \in 0 .. MaxDeals :
       /\ total' = sz
       /\ left' = sz
       /\ strategy' = IF monte_carlo /\ sz >= EnumThreshold THEN "mc" ELSE "enum"
  /\ wpc' = [w \in Workers |-> "batch"]
  /\ local' = [w \in Workers |-> ZeroTally(Len(ranges))]
  /\ agg' = ZeroTally(Len(ranges))
  /\ ref' = ZeroTally(Len(ranges))
  /\ contrib' = {}
  /\ elapsed' = 0
  /\ stop' = {}
  /\ UNCHANGED <<nopts, debug, board, dead, monte_carlo, err_margin,
                 time_max, err, range_strs, ranges, r, out>>

\* There is a deal a worker can score: a batch is not ended empty while
\* there is (the Monte Carlo counters saturate at MaxSamples).
BatchOpen ==
  \/ strategy = "enum" /\ left > 0
  \/ strategy = "mc" /\ ref.total < MaxSamples

\* A worker scores one deal into its own tally: the next deal of the
\* enumeration, or a Monte Carlo sample.
Score(w) ==
  /\ wpc[w] = "batch"
  /\ \/ /\ strategy = "enum"
        /\ left > 0
        /\ left' = left - 1
     \/ /\ strategy = "mc"
        /\ ref.total < MaxSamples
        /\ UNCHANGED left
  /\ \E sv \in [1 .. Len(ranges) -> Strengths] :
       /\ local' = [local EXCEPT ![w] = Accumulate(local[w], sv)]
       /\ ref' = Accumulate(ref, sv)
  /\ UNCHANGED <<drvVars, strategy, total, wpc, agg, contrib, elapsed, stop>>

\* The merge point that ends a batch of at least one deal: the worker's
\* tally is folded into the aggregate and the stopping rule is applied.
Merge(w) ==
  /\ wpc[w] = "batch"
  /\ local[w].total > 0 \/ ~BatchOpen
  /\ agg' = MergeTally(agg, local[w])
  /\ local' = [local EXCEPT ![w] = ZeroTally(Len(ranges))]
  /\ contrib' = IF local[w].total > 0 THEN contrib \cup {w} ELSE contrib
  /\ stop' = stop \cup StopRule(agg', left, local', elapsed)
  /\ wpc' = [wpc EXCEPT ![w] = "check"]
  /\ UNCHANGED <<drvVars, strategy, total, left, ref, elapsed>>

\* Between batches a worker reads the stop flag.
CheckStop(w) ==
  /\ wpc[w] = "check"
  /\ wpc' = [wpc EXCEPT ![w] = IF stop # {} THEN "done" ELSE "batch"]
  /\ UNCHANGED <<drvVars, strategy, total, left, local, agg, ref, contrib, elapsed, stop>>

\* Time passes, up to the time limit (the clock is not followed past it).
Tick ==
  /\ pc = "wait"
  /\ elapsed < eq.timeLimit
  /\ elapsed' = eq.timeLimit
  /\ UNCHANGED <<drvVars, strategy, total, left, wpc, local, agg, ref, contrib, stop>>

\* The result read from the aggregate tally.
EngineResults ==
  [players |-> Len(eq.start.handRanges),
   progress |-> IF strategy = "enum"
                THEN IF total = 0 THEN ONE ELSE (ONE * agg.total) \div total
                ELSE IF "b" \in stop THEN ONE
                     ELSE (ONE * agg.total) \div (MaxSamples + 1),
   enumerateAll |-> strategy = "enum",
   equity |-> [i \in 1 .. Len(eq.start.handRanges) |->
                 IF agg.total = 0 THEN 0
                 ELSE (ONE * agg.share[i])
                        \div (ShareUnit(Len(eq.start.handRanges)) * agg.total)]]

\* eq.wait() returns once every worker has stopped; the results are read.
WaitReturn ==
  /\ pc = "wait"
  /\ \A w \in Workers : wpc[w] = "done"
  /\ r' = EngineResults
  /\ pc' = "results"
  /\ UNCHANGED <<nopts, debug, board, dead, monte_carlo, err_margin,
                 time_max, err, range_strs, ranges, eq, out>>
  /\ UNCHANGED engVars

\* The requests the driver hands to the engine: those that pass line 145,
\* with the margins and time limits -e and -t accept.
EngineArgvs ==
  {[i \in 1 .. n |-> w] : n \in MIN_PLAYERS .. MaxEnginePlayers,
                          w \in {x \in RangeWords : combinations(x) # {}}}

Values == {stod(s).val : s \in {x \in NumStrs : stod(x).exc = "none"}}

EngineInit(margins, times) ==
  /\ pc = "start"
  /\ debug = FALSE
  /\ board = {}
  /\ dead = {}
  /\ monte_carlo \in BOOLEAN
  /\ err_margin \in margins
  /\ time_max \in times
  /\ ~infinite_simulation(monte_carlo, err_margin, time_max)
  /\ nopts = (IF monte_carlo THEN 1 ELSE 0)
               + (IF err_margin # DEFAULT_ERR_MARGIN THEN 1 ELSE 0)
               + (IF time_max # DEFAULT_TIME_MAX THEN 1 ELSE 0)
  /\ err = ""
  /\ range_strs \in EngineArgvs
  /\ ranges = get_ranges_from_argv(range_strs).ranges
  /\ eq = [timeLimit |-> 0, start |-> NoCall]
  /\ r = NoResults
  /\ out = NoOutput
  /\ EngineIdle

EngineNext ==
  \/ EngineStart
  \/ \E w \in Workers : Score(w)
  \/ \E w \in Workers : Merge(w)
  \/ \E w \in Workers : CheckStop(w)
  \/ Tick
  \/ WaitReturn
  \/ PrintResults

\* The engine under the requests that leave the margin and the time limit
\* at their defaults (term-heval [--mc] range range ...).
EngineSpec ==
  EngineInit({DEFAULT_ERR_MARGIN}, {DEFAULT_TIME_MAX}) /\ [][EngineNext]_vars

\* The scheduler runs every worker that can take a step, the clock
\* advances, and the caller's thread resumes when wait can return.
EngineFairSpec ==
  /\ EngineInit(Values \cup {DEFAULT_ERR_MARGIN}, Values \cup {DEFAULT_TIME_MAX})
  /\ [][EngineNext]_vars
  /\ \A w \in Workers : WF_vars(Score(w) \/ Merge(w) \/ CheckStop(w))
  /\ WF_vars(Tick)
  /\ WF_vars(WaitReturn)
  /\ WF_vars(PrintResults)

Next ==
  \/ OptDebug
  \/ OptBoard
  \/ OptDead
  \/ OptMonteCarlo
  \/ OptMargin
  \/ OptTime
  \/ OptHelp
  \/ OptEnd
  \/ CheckInfinite
  \/ GetRanges
  \/ StartCalculator
  \/ Wait
  \/ PrintResults

Spec == Init /\ [][Next]_vars

\* ------------------------------------------------------- the claims
Started == eq.start.called

\* Collision filter: some choice of one combination a range uses no card
\* twice and none of the cards in `used`.
RECURSIVE Feasible(_, _)
Feasible(rs, used) ==
  IF rs = << >> THEN TRUE
  ELSE \E c \in Head(rs) : c \cap used = {} /\ Feasible(Tail(rs), used \cup c)

BadArgv(strs) ==
  \/ Len(strs) < MIN_PLAYERS
  \/ Len(strs) > MAX_PLAYERS
  \/ \E i \in DOMAIN strs : combinations(strs[i]) = {}

\* C1: while the settings are Monte Carlo mode, margin 0 and time limit 0,
\* main is still reading options, at the test of line 145, or has failed;
\* no range was expanded and the calculator was never started.
C1_InfiniteRejected ==
  (monte_carlo /\ err_margin = 0 /\ time_max = 0) =>
    /\ pc \in {"opts", "check", "failed"}
    /\ ranges = << >>
    /\ range_strs = << >>
    /\ ~Started

C1_Witness ==
  /\ monte_carlo /\ err_margin = 0 /\ time_max = 0
  /\ pc = "failed"
  /\ err = "infinite simulation queried (set time limit, error margin or disable monte-carlo)"

\* C2: once get_ranges_from_argv has run, a command line with fewer than 2
\* or more than 10 ranges, or with a range of no combinations, has failed
\* and the calculator is never started; the calculator is started only with
\* 2 to 10 ranges, none of them empty.
C2_RangesChecked ==
  /\ (pc \notin {"opts", "check", "ranges"} /\ BadArgv(range_strs)) =>
       (pc = "failed" /\ ~Started)
  /\ Started =>
       /\ Len(eq.start.handRanges) \in MIN_PLAYERS .. MAX_PLAYERS
       /\ \A i \in DOMAIN eq.start.handRanges : eq.start.handRanges[i] # {}
       /\ eq.start.handRanges = [i \in DOMAIN range_strs |-> combinations(range_strs[i])]

C2_Witness ==
  /\ pc = "failed"
  /\ Len(range_strs) > MAX_PLAYERS
  /\ \A i \in DOMAIN range_strs : combinations(range_strs[i]) # {}
  /\ err = "more than 10 hand ranges"

\* C3: the calculator is only ever started with the board and the dead
\* cards disjoint.
C3_StartedDisjoint ==
  Started => eq.start.boardCards \cap eq.start.deadCards = {}

C5_NonNegative ==
  Started => (eq.timeLimit >= 0 /\ eq.start.stdevTarget >= 0)

\* C7: a finished run whose ranges, board and dead cards admit no deal is
\* reported as infeasible, not as a completed or timed-out calculation.
C7_InfeasibleReported ==
  (pc = "done" /\ ~Feasible(ranges, board \cup dead)) => out.status = "infeasible"

\* C10: main exits successfully after printing one equity a player, each
\* beside its range, whether or not the run completed; it reports the run
\* completed exactly when progress >= 1 and timed out otherwise, and shows
\* the hint exactly for an incomplete run whose enumerate-all flag is set.
\* Once the results are read main neither fails nor aborts.
C10_Outcome ==
  /\ pc = "done" =>
       /\ out.exit = "EXIT_SUCCESS"
       /\ out.lines = [i \in DOMAIN range_strs |-> <<range_strs[i], r.equity[i]>>]
       /\ (out.status = "completed") <=> (r.progress >= ONE)
       /\ (out.status = "timed out") <=> (r.progress < ONE)
       /\ out.hint <=> (r.progress < ONE /\ r.enumerateAll)
  /\ r # NoResults => pc \in {"results", "done"}

C10_Witness ==
  /\ pc = "done"
  /\ r.progress < ONE
  /\ r.enumerateAll
  /\ out.status = "timed out"
  /\ out.hint
  /\ Len(out.lines) = MAX_PLAYERS

RECURSIVE SumTallies(_, _)
SumTallies(ws, n) ==
  IF ws = {} THEN ZeroTally(n)
  ELSE LET w == CHOOSE x \in ws : TRUE
       IN  AddTally(local[w], SumTallies(ws \ {w}, n))

\* C8: at every point of a run the aggregate tally together with the
\* workers' unmerged tallies is the tally of one worker scoring the same
\* deals; when nothing is left unmerged, and so when the results are read,
\* the aggregate is that tally and each player's equity share matches.
C8_MergeConservation ==
  strategy # "idle" =>
    /\ AddTally(agg, SumTallies(Workers, Len(ranges))) = ref
    /\ (\A w \in Workers : local[w].total = 0) =>
         /\ agg = ref
         /\ \A i \in DOMAIN ranges :
              agg.share[i] * ref.total = ref.share[i] * agg.total
    /\ pc \in {"results", "done"} => agg = ref

C8_Witness ==
  /\ pc = "results"
  /\ contrib = Workers
  /\ agg.total = MaxDeals
  /\ \E i \in DOMAIN ranges : agg.wins[i] > 0

\* C9: in an exhaustive run every tally gives each player as many wins,
\* ties and losses together as it counts deals; the deals tallied and the
\* deals left are the enumeration space, and a run that visited the whole
\* space has tallied exactly that many deals.
C9_OutcomesSumToDeals ==
  strategy = "enum" =>
    /\ \A i \in DOMAIN ranges :
         /\ agg.wins[i] + agg.ties[i] + agg.losses[i] = agg.total
         /\ \A w \in Workers :
              local[w].wins[i] + local[w].ties[i] + local[w].losses[i]
                = local[w].total
    /\ agg.total + SumTallies(Workers, Len(ranges)).total + left = total
    /\ "a" \in stop =>
         /\ agg.total = total
         /\ \A i \in DOMAIN ranges :
              agg.wins[i] + agg.ties[i] + agg.losses[i] = total

C9_Witness ==
  /\ pc = "results"
  /\ strategy = "enum"
  /\ "a" \in stop
  /\ agg.total = MaxDeals
  /\ \E i, j \in DOMAIN ranges : agg.ties[i] > 0 /\ agg.losses[j] > 0 /\ agg.wins[j] > 0

\* C6: every started run stops: once main waits, wait returns and the
\* results are read.
C6_WaitReturns == (pc = "wait") ~> (pc = "results")

\* When wait has returned a stopping condition holds.
StoppedForAReason == pc \in {"results", "done"} => stop # {}


==========================================================================
